---- MODULE Spec2Model ----
(***************************************************************************)
(* Model of readBlogSync (src/index.js): a directory of content files is   *)
(* read into a map of posts, the published posts are sorted and linked,    *)
(* and the latest list, the archive, the tag index and the two feeds are   *)
(* built from them.                                                        *)
(*                                                                         *)
(* Representation.                                                         *)
(*  - A JavaScript string that the code takes apart (a file's base name,   *)
(*    a body, a title, a formatted date) is a sequence of one-character    *)
(*    strings; tags and extensions, which the code only compares, are      *)
(*    TLA+ strings.                                                        *)
(*  - A point in time is an integer number of months: month 1 of year 0   *)
(*    is 0, so year = t \div 12 and month = (t % 12) + 1.  Every date of   *)
(*    the model is the first instant of its month, so the day and time     *)
(*    part of every formatted date is the same constant and is left out.   *)
(*  - A post object is known by its name, the key of the map `post`:       *)
(*    `posts`, `latest`, the buckets and prev/next hold names.             *)
(*  - The model starts after the options were checked and merged with the  *)
(*    defaults (line 57) and the directory was listed (lines 73-78).       *)
(***************************************************************************)
EXTENDS Integers, Sequences, FiniteSets, TLC

VARIABLES
    files,      \* the directory listing without directories (lines 73-78)
    opts,       \* the options after xtend({}, defaults, opts) (line 57)
    now,        \* var now = new Date() (line 69)
    pc,         \* where readBlogSync is
    idx,        \* number of files the forEach of line 80 has gone through
    post,       \* var post = {} (line 60): name -> post object
    keys,       \* Object.keys(post): the names in insertion order
    posts,      \* var posts (line 61)
    reverse,    \* var reverse (line 62)
    latest,     \* latest (line 219)
    archive,    \* var archive (line 64)
    tagged,     \* var tagged (line 65)
    rssData,    \* var rssData (line 245)
    atomData,   \* var atomData (line 271)
    result      \* what readBlogSync returned, if it did

vars == << files, opts, now, pc, idx, post, keys, posts, reverse, latest,
           archive, tagged, rssData, atomData, result >>

-----------------------------------------------------------------------------
(* Bounds *)

\* most entries of the content directory
MaxFiles == 3
\* the run time (in months) read by line 69
RunTime == 25
\* most months the clock can have advanced when line 280 reads it again
MaxDrift == 1
\* the values of opts.latestCount a caller passes (besides passing none)
LatestCounts == {0, 2}

-----------------------------------------------------------------------------
(* Generic helpers *)

Min(a, b) == IF a < b THEN a ELSE b

Abs(n) == IF n < 0 THEN 0 - n ELSE n

\* The empty object {}.
EmptyObj == [k \in {} |-> 0]

\* A value for "no such property" (undefined).
Absent == "undefined"

\* xtend({}, a, b): the own properties of a, then those of b over them.
Xtend(a, b) ==
    [k \in (DOMAIN a) \cup (DOMAIN b) |-> IF k \in DOMAIN b THEN b[k] ELSE a[k]]

-----------------------------------------------------------------------------
(* Strings as sequences of characters *)

Digits == << "0", "1", "2", "3", "4", "5", "6", "7", "8", "9" >>

IsDigit(c) == \E d \in 1..10 : Digits[d] = c

\* The UTF-16 code unit of the characters formatted dates are made of.
CharCode(c) ==
    CASE c = "+" -> 43
      [] c = "-" -> 45
      [] OTHER   -> 47 + (CHOOSE d \in 1..10 : Digits[d] = c)

\* s < t for JavaScript strings: by code unit, a proper prefix is smaller.
RECURSIVE StrLess(_, _)
StrLess(s, t) ==
    IF t = << >> THEN FALSE
    ELSE IF s = << >> THEN TRUE
    ELSE IF Head(s) = Head(t) THEN StrLess(Tail(s), Tail(t))
    ELSE CharCode(Head(s)) < CharCode(Head(t))

\* n >= 0 in decimal, zero-filled to at least w digits.
RECURSIVE Pad(_, _)
Pad(n, w) ==
    IF n < 10 /\ w <= 1 THEN << Digits[n + 1] >>
    ELSE Pad(n \div 10, w - 1) \o << Digits[(n % 10) + 1] >>

-----------------------------------------------------------------------------
(* Dates *)

\* A Date object with time value t, and the Date whose time value is NaN.
DateObj(t) == [kind |-> "date", t |-> t]
InvalidDate == [kind |-> "invalid", t |-> 0]

\* What a metadata file can give as `date`: text that Date parses to the
\* time t, and text that Date cannot parse.
DateString(t) == [kind |-> "string", t |-> t]
JunkString == [kind |-> "junk", t |-> 0]

\* new Date(v) (line 173): v is a Date (the default) or a string.
NewDate(v) == IF v.kind \in {"date", "string"} THEN DateObj(v.t) ELSE InvalidDate

\* a < b on two Dates (line 190): both become numbers; NaN is below nothing.
\* (DateLessOrEqual is the faulty variant a <= b.)
DateLessOrEqual(a, b) == a.kind = "date" /\ b.kind = "date" /\ a.t <= b.t
DateLess(a, b) == a.kind = "date" /\ b.kind = "date" /\ a.t < b.t

YearOf(t) == t \div 12
MonthOf(t) == (t % 12) + 1

\* Date.prototype.toISOString of a valid Date (lines 193, 195), up to the
\* month: YYYY-MM for the years 0 to 9999, else a sign and six digits.
ToISOString(d) ==
    LET y == YearOf(d.t)
        year == IF 0 <= y /\ y <= 9999 THEN Pad(y, 4)
                ELSE << (IF y < 0 THEN "-" ELSE "+") >> \o Pad(Abs(y), 6)
    IN  year \o << "-" >> \o Pad(MonthOf(d.t), 2)

\* moment(d).format('YYYY') and .format('MM') (lines 177, 178).
FormatYYYY(d) ==
    IF d.kind # "date" THEN << "I", "n", "v", "a", "l", "i", "d" >>
    ELSE (IF YearOf(d.t) < 0 THEN << "-" >> ELSE << >>) \o Pad(Abs(YearOf(d.t)), 4)
FormatMM(d) ==
    IF d.kind # "date" THEN << "I", "n", "v", "a", "l", "i", "d" >>
    ELSE Pad(MonthOf(d.t), 2)

\* moment.format("ddd, DD MMM YYYY HH:mm:ss ZZ") and moment.format(): the
\* two feed formats, known by their name and the year and month they show.
FormatRfc822(d) == [format |-> "rfc822", year |-> FormatYYYY(d), month |-> FormatMM(d)]
FormatIso8601(d) == [format |-> "iso8601", year |-> FormatYYYY(d), month |-> FormatMM(d)]

-----------------------------------------------------------------------------
(* File names and contents *)

\* The recognised extensions (lines 38-46), and the properties every object
\* literal inherits from Object.prototype, which validExt[ext] also finds.
validExt == {"md", "textile", "txt", "html", "json", "yaml", "ini"}
ObjectPrototype ==
    {"constructor", "toString", "toLocaleString", "valueOf", "hasOwnProperty",
     "isPrototypeOf", "propertyIsEnumerable", "__proto__"}

\* A file name is its base name and the dot-separated parts after it:
\* filename.split(/\./) is the base name followed by those parts.
Parts0(filename) == filename.base
Parts1(filename) == IF filename.exts = << >> THEN Absent ELSE filename.exts[1]

\* !validExt[ext] (line 89): the file is ignored.
Ignored(ext) == ext \notin (validExt \cup ObjectPrototype)

\* basename.replace(/^\d+-/, '') (lines 95-97).
RECURSIVE LeadingDigits(_)
LeadingDigits(s) ==
    IF s # << >> /\ IsDigit(Head(s)) THEN 1 + LeadingDigits(Tail(s)) ELSE 0

StripNumber(s) ==
    LET n == LeadingDigits(s)
    IN  IF n >= 1 /\ Len(s) > n /\ s[n + 1] = "-"
        THEN SubSeq(s, n + 2, Len(s))
        ELSE s

\* str.substr(0, 1).toUpperCase() + str.substr(1) for the letters of the model.
ToUpperCase(c) ==
    CASE c = "a" -> "A" [] c = "b" -> "B" [] c = "c" -> "C" [] c = "d" -> "D"
      [] OTHER -> c

\* basename.split(/-/).map(capitalise).join(' ') (line 106): every hyphen
\* becomes a space and the character after the start or a hyphen is raised.
RECURSIVE Capitalised(_, _)
Capitalised(s, first) ==
    IF s = << >> THEN << >>
    ELSE IF Head(s) = "-" THEN << " " >> \o Capitalised(Tail(s), TRUE)
    ELSE << (IF first THEN ToUpperCase(Head(s)) ELSE Head(s)) >>
         \o Capitalised(Tail(s), FALSE)

DefaultTitle(basename) == Capitalised(basename, TRUE)

\* escape-html on the characters of the model.
RECURSIVE Escape(_)
Escape(s) ==
    IF s = << >> THEN << >>
    ELSE (CASE Head(s) = "<" -> << "&", "l", "t", ";" >>
            [] Head(s) = "&" -> << "&", "a", "m", "p", ";" >>
            [] OTHER -> << Head(s) >>) \o Escape(Tail(s))

\* Rendered HTML: the renderer that made it and the text it was given
\* ("raw" is text used as it is; '' is raw empty text).
Html(by, src) == [by |-> by, src |-> src]

\* An array of tags, and a tags value that is one string.
TagArray(items) == [kind |-> "array", items |-> items]
TagString(item) == [kind |-> "string", items |-> << item >>]

-----------------------------------------------------------------------------
(* The content directory *)

FileName(base, exts) == [base |-> base, exts |-> exts]

\* A directory entry: its name, whether it is a directory, and what
\* fs.readFileSync gives: `text` for a body, and for metadata whether the
\* text decodes (`ok`) and the object it decodes to (`data`).
BodyFile(base, exts, text) ==
    [name |-> FileName(base, exts), isDirectory |-> FALSE,
     ok |-> TRUE, text |-> text, data |-> EmptyObj]
MetaFile(base, exts, data) ==
    [name |-> FileName(base, exts), isDirectory |-> FALSE,
     ok |-> TRUE, text |-> << >>, data |-> data]
BadFile(base, exts) ==
    [name |-> FileName(base, exts), isDirectory |-> FALSE,
     ok |-> FALSE, text |-> << >>, data |-> EmptyObj]
Directory(base, exts) ==
    [name |-> FileName(base, exts), isDirectory |-> TRUE,
     ok |-> TRUE, text |-> << >>, data |-> EmptyObj]

\* Dates of the model: one month of year 1, of year -1 and of year -2, all
\* before the run time, and one of year 10000, after it.
Year1 == DateString(13)
YearMinus1 == DateString(0 - 12)
YearMinus2 == DateString(0 - 24)
Year10000 == DateString(120000)

\* The entries a content directory is made of.
Entries ==
    { MetaFile(<< "a" >>, << "json" >>,
               [title |-> << "H", "i" >>, date |-> Year1,
                tags |-> TagArray(<< "x", "x" >>)]),
      MetaFile(<< "a" >>, << "yaml" >>,
               [title |-> << "Y", "o" >>, year |-> << "9" >>]),
      BodyFile(<< "1", "-", "a" >>, << "md" >>, << "w" >>),
      MetaFile(<< "b" >>, << "json" >>,
               [date |-> YearMinus1, tags |-> TagArray(<< "x" >>)]),
      MetaFile(<< "b" >>, << "ini" >>, [date |-> Year1]),
      MetaFile(<< "b" >>, << "yaml" >>, [date |-> Year10000]),
      BodyFile(<< "b" >>, << "html" >>, << "w" >>),
      BadFile(<< "1", "-", "b" >>, << "json" >>),
      BodyFile(<< "b" >>, << "constructor" >>, << "w" >>),
      MetaFile(<< "c" >>, << "json" >>,
               [date |-> YearMinus2, tags |-> TagArray(<< "y" >>)]),
      MetaFile(<< "c" >>, << "ini" >>, [tags |-> TagString("x")]),
      MetaFile(<< "1", "-", "c" >>, << "json" >>, [date |-> JunkString]),
      BadFile(<< "c" >>, << "yaml" >>),
      BodyFile(<< "c" >>, << "txt" >>, << "a", "<" >>),
      BodyFile(<< "c" >>, << "textile" >>, << "w" >>),
      BodyFile(<< "c" >>, << "md", "bak" >>, << "w" >>),
      BodyFile(<< "a" >>, << "xyz" >>, << "w" >>),
      Directory(<< "d" >>, << "md" >>) }

\* fs.readdirSync (line 73): up to MaxFiles entries with different names,
\* in any order.
Listings ==
    { l \in UNION { [1..n -> Entries] : n \in 0..MaxFiles } :
        \A i, j \in DOMAIN l : i # j => l[i].name # l[j].name }

\* files.filter(not a directory) (lines 76-78).
RECURSIVE SkipDirectories(_)
SkipDirectories(l) ==
    IF l = << >> THEN << >>
    ELSE (IF Head(l).isDirectory THEN << >> ELSE << Head(l) >>)
         \o SkipDirectories(Tail(l))

\* The options a caller passes that the model reads, and the defaults
\* (lines 30-36).
CallerOpts == { EmptyObj } \cup { [latestCount |-> n] : n \in LatestCounts }
defaults == [latestCount |-> 10, indexCount |-> 10]

-----------------------------------------------------------------------------
(* Objects *)

HasProp(o, k) == k \in DOMAIN o

\* o[k] = v on an object.
SetProp(o, k, v) == [x \in (DOMAIN o) \cup {k} |-> IF x = k THEN v ELSE o[x]]

\* The default post of lines 103-117.  meta.moment is the moment of
\* meta.date and is modelled by the same value; meta.day and meta.monthname
\* are set wherever meta.month is and are left out.
DefaultPost(basename) ==
    [name    |-> basename,
     meta    |-> [title  |-> DefaultTitle(basename),
                  date   |-> now,
                  moment |-> now,
                  year   |-> FormatYYYY(now),
                  month  |-> FormatMM(now),
                  tags   |-> TagArray(<< >>)],
     content |-> << >>,
     html    |-> Html("raw", << >>)]

-----------------------------------------------------------------------------
(* Reading the files (lines 80-161) *)

\* JSON.parse and yaml.load throw on text that does not decode (lines
\* 123-139); ini.decode (line 141) is called unguarded and does not throw.
\* (DecodeThrowsJsonOnly is the faulty variant that guards JSON alone.)
DecodeThrowsJsonOnly(ext, f) == ext = "json" /\ ~f.ok
DecodeThrows(ext, f) == ext \in {"json", "yaml"} /\ ~f.ok

\* META (lines 121-142): the decoded object is laid over the post's meta.
WithMeta(p, ext, f) ==
    IF ext \in {"json", "yaml", "ini"}
    THEN SetProp(p, "meta", Xtend(p.meta, f.data))
    ELSE p

\* CONTENTS (lines 144-160).  The last branch tests for 'text'.
WithContents(p, ext, f) ==
    CASE ext = "html" ->
           SetProp(SetProp(p, "content", f.text), "html", Html("raw", f.text))
      [] ext = "md" ->
           SetProp(SetProp(p, "content", f.text), "html", Html("marked", f.text))
      [] ext = "textile" ->
           SetProp(SetProp(p, "content", f.text), "html", Html("textile", f.text))
      [] ext = "text" ->
           SetProp(SetProp(p, "content", f.text), "html", Html("pre", Escape(f.text)))
      [] OTHER -> p

\* One call of the forEach callback, on the file after the idx already read.
ReadFile ==
    /\ pc = "read"
    /\ idx < Len(files)
    /\ LET f == files[idx + 1]
           ext == Parts1(f.name)
           basename == StripNumber(Parts0(f.name))
           known == HasProp(post, basename)
           p == IF known THEN post[basename] ELSE DefaultPost(basename)
       IN  IF Ignored(ext)
           THEN /\ idx' = idx + 1
                /\ UNCHANGED << post, keys, pc >>
           ELSE /\ keys' = IF known THEN keys ELSE Append(keys, basename)
                /\ IF DecodeThrows(ext, f)
                   THEN /\ post' = SetProp(post, basename, p)
                        /\ pc' = IF ext = "json" THEN "exited" ELSE "thrown"
                        /\ idx' = idx
                   ELSE /\ post' = SetProp(post, basename,
                                           WithContents(WithMeta(p, ext, f), ext, f))
                        /\ pc' = pc
                        /\ idx' = idx + 1
    /\ UNCHANGED << files, opts, now, posts, reverse, latest, archive, tagged,
                    rssData, atomData, result >>

-----------------------------------------------------------------------------
(* The list of posts (lines 163-210) *)

\* Object.keys(post).map(name -> post[name]) (lines 164-166).
CollectPosts ==
    /\ pc = "read"
    /\ idx = Len(files)
    /\ posts' = keys
    /\ pc' = "dates"
    /\ UNCHANGED << files, opts, now, idx, post, keys, reverse, latest, archive,
                    tagged, rssData, atomData, result >>

\* Lines 173-182 on one post.
Converted(p) ==
    LET date == NewDate(p.meta.date)
    IN  SetProp(p, "meta",
                Xtend(p.meta, [date   |-> date,
                               year   |-> FormatYYYY(date),
                               month  |-> FormatMM(date),
                               moment |-> date]))

ConvertDates ==
    /\ pc = "dates"
    /\ post' = [n \in DOMAIN post |-> Converted(post[n])]
    /\ pc' = "sort"
    /\ UNCHANGED << files, opts, now, idx, keys, posts, reverse, latest, archive,
                    tagged, rssData, atomData, result >>

\* The filter of lines 188-191.
\* (PublishedByNow is the faulty variant that also keeps a post dated now.)
PublishedByNow(p) == DateLessOrEqual(p.meta.date, now)
Published(p) == DateLess(p.meta.date, now)

\* posts.filter with that test (FilterNothing is the faulty variant that
\* keeps every post).
FilterNothing(s) == s
RECURSIVE Filter(_)
Filter(s) ==
    IF s = << >> THEN << >>
    ELSE (IF Published(post[Head(s)]) THEN << Head(s) >> ELSE << >>)
         \o Filter(Tail(s))

\* The comparison function of lines 191-198.
Compare(a, b) ==
    IF StrLess(ToISOString(a.meta.date), ToISOString(b.meta.date)) THEN 0 - 1
    ELSE IF StrLess(ToISOString(b.meta.date), ToISOString(a.meta.date)) THEN 1
    ELSE 0

\* Array.prototype.sort with that function: a stable sort.
RECURSIVE Insert(_, _)
Insert(s, n) ==
    IF s = << >> THEN << n >>
    ELSE IF Compare(post[n], post[Head(s)]) < 0 THEN << n >> \o s
    ELSE << Head(s) >> \o Insert(Tail(s), n)

RECURSIVE Sort(_)
Sort(s) ==
    IF s = << >> THEN << >>
    ELSE Insert(Sort(SubSeq(s, 1, Len(s) - 1)), s[Len(s)])

FilterSort ==
    /\ pc = "sort"
    /\ posts' = Sort(Filter(posts))
    /\ pc' = "link"
    /\ UNCHANGED << files, opts, now, idx, post, keys, reverse, latest, archive,
                    tagged, rssData, atomData, result >>

\* Lines 203-210 on the post at place i (from 1) of posts.
Linked(p, i) ==
    LET withPrev == IF i > 1 THEN SetProp(p, "prev", posts[i - 1]) ELSE p
    IN  IF i < Len(posts) THEN SetProp(withPrev, "next", posts[i + 1]) ELSE withPrev

\* The place of a name in posts; every name is there once at most.
IndexOf(s, n) == CHOOSE i \in 1..Len(s) : s[i] = n

LinkPosts ==
    /\ pc = "link"
    /\ post' = [n \in DOMAIN post |->
                  IF \E i \in 1..Len(posts) : posts[i] = n
                  THEN Linked(post[n], IndexOf(posts, n))
                  ELSE post[n]]
    /\ pc' = "latest"
    /\ UNCHANGED << files, opts, now, idx, keys, posts, reverse, latest, archive,
                    tagged, rssData, atomData, result >>

-----------------------------------------------------------------------------
(* latest, archive and tagged (lines 214-242) *)

\* Array.prototype.reverse.
RECURSIVE Reversed(_)
Reversed(s) == IF s = << >> THEN << >> ELSE Reversed(Tail(s)) \o << Head(s) >>

\* s.slice(0, end): a negative end counts from the end of s.
\* (SliceFromEnd is the faulty variant that keeps the last `end` elements.)
SliceFromEnd(s, end) == SubSeq(s, Len(s) - Min(end, Len(s)) + 1, Len(s))
Slice(s, end) ==
    LET last == IF end < 0 THEN (IF Len(s) + end < 0 THEN 0 ELSE Len(s) + end)
                ELSE Min(end, Len(s))
    IN  SubSeq(s, 1, last)

\* Lines 215-219: reverse is a reversed copy, posts is not touched.
MakeLatest ==
    /\ pc = "latest"
    /\ reverse' = Reversed(Slice(posts, Len(posts)))
    /\ latest' = Slice(reverse', opts.latestCount)
    /\ pc' = "archive"
    /\ UNCHANGED << files, opts, now, idx, post, keys, posts, archive, tagged,
                    rssData, atomData, result >>

\* Lines 225-233 on one post.
\* (ArchivedFirstOnly is the faulty variant that files only the first post of
\* a year.)
ArchivedFirstOnly(a, p) ==
    IF HasProp(a, p.meta.year) THEN a
    ELSE SetProp(a, p.meta.year, SetProp(EmptyObj, p.meta.month, << p.name >>))
Archived(a, p) ==
    LET year == p.meta.year
        month == p.meta.month
        months == IF HasProp(a, year) THEN a[year] ELSE EmptyObj
        bucket == IF HasProp(months, month) THEN months[month] ELSE << >>
    IN  SetProp(a, year, SetProp(months, month, Append(bucket, p.name)))

RECURSIVE ArchiveOf(_, _)
ArchiveOf(a, s) ==
    IF s = << >> THEN a ELSE ArchiveOf(Archived(a, post[Head(s)]), Tail(s))

MakeArchive ==
    /\ pc = "archive"
    /\ archive' = ArchiveOf(archive, posts)
    /\ pc' = "tagged"
    /\ UNCHANGED << files, opts, now, idx, post, keys, posts, reverse, latest,
                    tagged, rssData, atomData, result >>

\* Lines 239-240 for one tag of one post.
Tagged(t, tag, name) ==
    SetProp(t, tag, Append(IF HasProp(t, tag) THEN t[tag] ELSE << >>, name))

RECURSIVE TaggedAll(_, _, _)
TaggedAll(t, tags, name) ==
    IF tags = << >> THEN t
    ELSE TaggedAll(Tagged(t, Head(tags), name), Tail(tags), name)

RECURSIVE TaggedOf(_, _)
TaggedOf(t, s) ==
    IF s = << >> THEN t
    ELSE TaggedOf(TaggedAll(t, post[Head(s)].meta.tags.items, Head(s)), Tail(s))

\* post.meta.tags.forEach is no function when tags is a string, and
\* tagged[tag].push is none when tagged inherits a property named tag.
TagsThrow(p) ==
    \/ p.meta.tags.kind # "array"
    \/ \E k \in 1..Len(p.meta.tags.items) : p.meta.tags.items[k] \in ObjectPrototype

\* Lines 237-242.  A TypeError leaves readBlogSync with nothing returned;
\* what tagged held by then is not kept.
MakeTagged ==
    /\ pc = "tagged"
    /\ IF \E i \in 1..Len(posts) : TagsThrow(post[posts[i]])
       THEN /\ pc' = "thrown"
            /\ UNCHANGED tagged
       ELSE /\ tagged' = TaggedOf(tagged, posts)
            /\ pc' = "rss"
    /\ UNCHANGED << files, opts, now, idx, post, keys, posts, reverse, latest,
                    archive, rssData, atomData, result >>

-----------------------------------------------------------------------------
(* The feeds (lines 244-312) and the return (lines 314-323) *)

\* The link of a post or of a feed: 'http://' + domain + base + '/' + name.
Link(name) == [path |-> name]

RssItem(p) ==
    [title       |-> p.meta.title,
     description |-> p.html,
     link        |-> Link(p.name),
     guid        |-> Link(p.name),
     pubDate     |-> FormatRfc822(p.meta.moment)]

\* Lines 245-266; data2xml (line 268) writes what rssData holds.
MakeRss ==
    /\ pc = "rss"
    /\ rssData' = [lastBuildDate |-> FormatRfc822(now),
                   pubDate       |-> FormatRfc822(now),
                   ttl           |-> 1800,
                   item          |-> [i \in 1..Len(latest) |-> RssItem(post[latest[i]])]]
    /\ pc' = "atom"
    /\ UNCHANGED << files, opts, now, idx, post, keys, posts, reverse, latest,
                    archive, tagged, atomData, result >>

AtomEntry(p) ==
    [title   |-> p.meta.title,
     id      |-> Link(p.name),
     link    |-> << Link(p.name), Link(p.name) >>,
     content |-> p.html,
     updated |-> FormatIso8601(p.meta.moment)]

\* Lines 271-310; line 280 reads the clock again with moment(): it shows
\* the run time or a later time (one unit of drift is an advance of the
\* clock that the formatted text shows).
MakeAtom ==
    /\ pc = "atom"
    /\ \E drift \in 0..MaxDrift :
         atomData' = [updated |-> FormatIso8601(DateObj(now.t + drift)),
                      entry   |-> [i \in 1..Len(latest) |-> AtomEntry(post[latest[i]])]]
    /\ pc' = "return"
    /\ UNCHANGED << files, opts, now, idx, post, keys, posts, reverse, latest,
                    archive, tagged, rssData, result >>

Return ==
    /\ pc = "return"
    /\ result' = [returned |-> TRUE,
                  posts    |-> posts,
                  post     |-> post,
                  pages    |-> << >>,
                  latest   |-> latest,
                  archive  |-> archive,
                  tagged   |-> tagged,
                  rss      |-> rssData,
                  atom     |-> atomData]
    /\ pc' = "done"
    /\ UNCHANGED << files, opts, now, idx, post, keys, posts, reverse, latest,
                    archive, tagged, rssData, atomData >>

-----------------------------------------------------------------------------
(* The specification *)

Init ==
    /\ files \in { SkipDirectories(l) : l \in Listings }
    /\ opts \in { Xtend(defaults, o) : o \in CallerOpts }
    /\ now = DateObj(RunTime)
    /\ pc = "read"
    /\ idx = 0
    /\ post = EmptyObj
    /\ keys = << >>
    /\ posts = << >>
    /\ reverse = << >>
    /\ latest = << >>
    /\ archive = EmptyObj
    /\ tagged = EmptyObj
    /\ rssData = EmptyObj
    /\ atomData = EmptyObj
    /\ result = [returned |-> FALSE]

Next ==
    \/ ReadFile
    \/ CollectPosts
    \/ ConvertDates
    \/ FilterSort
    \/ LinkPosts
    \/ MakeLatest
    \/ MakeArchive
    \/ MakeTagged
    \/ MakeRss
    \/ MakeAtom
    \/ Return

Spec == Init /\ [][Next]_vars

-----------------------------------------------------------------------------
(* What the claims speak of *)

Range(s) == { s[i] : i \in 1..Len(s) }

Count(s, x) == Cardinality({ i \in 1..Len(s) : s[i] = x })

\* The names in the buckets of an archive and of a tag index.
ArchiveNames(a) == UNION { UNION { Range(a[y][m]) : m \in DOMAIN a[y] } : y \in DOMAIN a }
TaggedNames(t) == UNION { Range(t[tag]) : tag \in DOMAIN t }

\* The names the items of the two feeds link to.
FeedNames(rss, atom) ==
    { rss.item[i].link.path : i \in DOMAIN rss.item }
      \cup { atom.entry[i].id.path : i \in DOMAIN atom.entry }

\* The file's name has one extension and it is ext.
HasExt(f, ext) == f.name.exts = << ext >>

\* The first dot-separated part after the base name is one of exts.
FirstExtIn(f, exts) == f.name.exts # << >> /\ f.name.exts[1] \in exts

MetaExts == {"json", "yaml", "ini"}
BodyExts == {"md", "textile", "txt", "html"}

\* C1: the returned posts are exactly the posts of the map `post` whose
\* resolved date is strictly before the run time, each once; a post dated
\* after the run time stays in the map under its name and is in none of
\* posts, latest, archive and tagged.
C1_PostsAreThePublished ==
    result.returned =>
      /\ Range(result.posts) \subseteq DOMAIN result.post
      /\ \A n \in DOMAIN result.post :
           LET d == result.post[n].meta.date
           IN  /\ result.post[n].name = n
               /\ Count(result.posts, n) =
                    (IF d.kind = "date" /\ d.t < now.t THEN 1 ELSE 0)
               /\ (d.kind = "date" /\ d.t > now.t) =>
                    /\ n \notin Range(result.posts)
                    /\ n \notin Range(result.latest)
                    /\ n \notin ArchiveNames(result.archive)
                    /\ n \notin TaggedNames(result.tagged)

C1_Witness ==
    /\ result.returned
    /\ result.posts # << >>
    /\ \E n \in DOMAIN result.post :
         /\ result.post[n].meta.date.kind = "date"
         /\ result.post[n].meta.date.t > now.t
    /\ \E n \in DOMAIN result.post : result.post[n].meta.date.kind = "invalid"

\* C2: the dates of the returned posts ascend, each post's next is the post
\* after it and each post's prev the post before it, the first post has no
\* prev and the last no next.
C2_AscendingAndLinked ==
    result.returned =>
      LET ps == result.posts
          P(i) == result.post[ps[i]]
      IN  \A i \in 1..Len(ps) :
            /\ i < Len(ps) => /\ P(i).meta.date.t <= P(i + 1).meta.date.t
                              /\ HasProp(P(i), "next") /\ P(i).next = ps[i + 1]
                              /\ HasProp(P(i + 1), "prev") /\ P(i + 1).prev = ps[i]
            /\ i = 1 => ~HasProp(P(i), "prev")
            /\ i = Len(ps) => ~HasProp(P(i), "next")


\* The meta and the body the files read so far give the post named n: the
\* default record with every metadata file for n laid over it in the order
\* read, and the content and html of the last body file for n.
RECURSIVE MetaAfter(_, _)
MetaAfter(n, k) ==
    IF k = 0 THEN DefaultPost(n).meta
    ELSE LET f == files[k]
             m == MetaAfter(n, k - 1)
         IN  IF Parts1(f.name) \in MetaExts /\ StripNumber(f.name.base) = n
             THEN [x \in (DOMAIN m) \cup (DOMAIN f.data) |->
                     IF x \in DOMAIN f.data THEN f.data[x] ELSE m[x]]
             ELSE m

RenderedBy(ext, text) ==
    CASE ext = "md"      -> Html("marked", text)
      [] ext = "textile" -> Html("textile", text)
      [] ext = "html"    -> Html("raw", text)
      [] ext = "txt"     -> Html("pre", Escape(text))

RECURSIVE BodyAfter(_, _)
BodyAfter(n, k) ==
    IF k = 0 THEN [content |-> << >>, html |-> Html("raw", << >>)]
    ELSE LET f == files[k]
         IN  IF Parts1(f.name) \in BodyExts /\ StripNumber(f.name.base) = n
             THEN [content |-> f.text, html |-> RenderedBy(Parts1(f.name), f.text)]
             ELSE BodyAfter(n, k - 1)

\* C3: the files that share a name once the leading number is stripped make
\* one post of that name; its meta is the default record overlaid field by
\* field by each metadata file in the order read, its content and html are
\* those of the body file, a metadata file leaves content and html alone
\* and a body file leaves meta alone.
C3_FilesMergeIntoOnePost ==
    pc = "read" =>
      \A k \in 1..idx :
        Parts1(files[k].name) \in validExt =>
          LET n == StripNumber(files[k].name.base)
          IN  /\ HasProp(post, n)
              /\ post[n].name = n
              /\ post[n].meta = MetaAfter(n, idx)
              /\ post[n].content = BodyAfter(n, idx).content
              /\ post[n].html = BodyAfter(n, idx).html

\* C4: a file with the plain-text extension sets its post's content to the
\* file's contents and its html to the contents escaped inside <pre>.
C4_PlainTextIsPreformatted ==
    (pc = "read" /\ idx >= 1 /\ HasExt(files[idx], "txt")) =>
      LET n == StripNumber(files[idx].name.base)
      IN  /\ HasProp(post, n)
          /\ post[n].content = files[idx].text
          /\ post[n].html = Html("pre", Escape(files[idx].text))

\* A JSON or YAML file whose text does not decode.
Malformed(f) == FirstExtIn(f, {"json", "yaml"}) /\ ~f.ok

FirstMalformed == CHOOSE k \in 1..Len(files) :
                    Malformed(files[k]) /\ \A j \in 1..(k - 1) : ~Malformed(files[j])

\* C5: with a malformed JSON or YAML file in the directory the build stops
\* at that file: nothing is returned, no stage after the reading of the
\* files is entered, and no file after the malformed one is read.
C5_MalformedMetadataAborts ==
    (\E k \in 1..Len(files) : Malformed(files[k])) =>
      /\ ~result.returned
      /\ pc \in {"read", "exited", "thrown"}
      /\ idx < FirstMalformed
      /\ pc \in {"exited", "thrown"} => idx = FirstMalformed - 1

C5_Witness ==
    /\ pc \in {"exited", "thrown"}
    /\ idx >= 1
    /\ idx + 1 < Len(files)
    /\ Malformed(files[idx + 1])

\* One name, k times.
RECURSIVE Repeat(_, _)
Repeat(x, k) == IF k <= 0 THEN << >> ELSE << x >> \o Repeat(x, k - 1)

\* The posts of s tagged tag, each as often as it has the tag.
RECURSIVE WithTag(_, _)
WithTag(s, tag) ==
    IF s = << >> THEN << >>
    ELSE Repeat(Head(s), Count(post[Head(s)].meta.tags.items, tag))
         \o WithTag(Tail(s), tag)

\* The sum of f over a finite set.
RECURSIVE Sum(_, _)
Sum(f, S) ==
    IF S = {} THEN 0
    ELSE LET x == CHOOSE y \in S : TRUE IN f[x] + Sum(f, S \ {x})

\* The (year, month) pairs an archive has a bucket for.
ArchiveBuckets(a) == UNION { { << y, m >> : m \in DOMAIN a[y] } : y \in DOMAIN a }

\* C6: after the aggregation every post of posts is in the one bucket
\* archive[its year][its month] and the archive holds nothing else; it is
\* in tagged[t] once for each time t is among its tags and the tag index
\* holds nothing else; so the bucket lengths add up to the number of posts
\* and of (post, tag) pairs; every bucket keeps the order of posts.
C6_ArchiveAndTagsPartitionPosts ==
    pc \in {"rss", "atom", "return", "done"} =>
      LET InMonth(y, m) ==
            SelectSeq(posts, LAMBDA n : post[n].meta.year = y /\ post[n].meta.month = m)
          buckets == ArchiveBuckets(archive)
          allTags == UNION { Range(post[n].meta.tags.items) : n \in Range(posts) }
      IN  /\ \A n \in Range(posts) :
               /\ HasProp(archive, post[n].meta.year)
               /\ HasProp(archive[post[n].meta.year], post[n].meta.month)
          /\ \A b \in buckets :
               /\ archive[b[1]][b[2]] # << >>
               /\ archive[b[1]][b[2]] = InMonth(b[1], b[2])
          /\ Sum([b \in buckets |-> Len(archive[b[1]][b[2]])], buckets) = Len(posts)
          /\ DOMAIN tagged = allTags
          /\ \A tag \in DOMAIN tagged : tagged[tag] = WithTag(posts, tag)
          /\ Sum([tag \in DOMAIN tagged |-> Len(tagged[tag])], DOMAIN tagged)
               = Sum([n \in Range(posts) |-> Len(post[n].meta.tags.items)], Range(posts))

C6_Witness ==
    /\ pc = "done"
    /\ Cardinality(DOMAIN archive) >= 2
    /\ \E y \in DOMAIN archive : \E m \in DOMAIN archive[y] :
         Cardinality(Range(archive[y][m])) >= 2
    /\ \E tag \in DOMAIN tagged : Len(tagged[tag]) > Cardinality(Range(tagged[tag]))

\* C7: latest is posts reversed and cut to its first latestCount elements,
\* so it has min(latestCount, len(posts)) elements, and building it leaves
\* posts as it was.
C7_LatestIsReversedPrefix ==
    /\ [](pc \in {"archive", "tagged", "rss", "atom", "return", "done"} =>
            /\ Len(latest) = Min(opts.latestCount, Len(posts))
            /\ \A i \in 1..Len(latest) : latest[i] = posts[Len(posts) + 1 - i])
    /\ [][pc = "latest" => posts' = posts]_vars

C7_Witness ==
    /\ pc = "done"
    /\ Len(posts) = 3
    /\ opts.latestCount = 2
    /\ Len(latest) = 2

\* C8: a file whose extension, the part of its name after the first dot, is
\* not a recognised one is skipped and leaves no trace: every post of the
\* returned map comes from a file with a recognised extension.
C8_UnrecognisedExtensionIsSkipped ==
    result.returned =>
      \A n \in DOMAIN result.post :
        \E k \in 1..Len(files) :
          /\ \E ext \in validExt : HasExt(files[k], ext)
          /\ StripNumber(files[k].name.base) = n

\* C9: every run-time stamp of the output is derived from the one time
\* captured at the start, so the output is a function of the directory and
\* that time.
C9_StampsComeFromNow ==
    result.returned =>
      /\ result.rss.lastBuildDate = FormatRfc822(now)
      /\ result.rss.pubDate = FormatRfc822(now)
      /\ result.atom.updated = FormatIso8601(now)

\* No metadata file read gives the post named n a date.
NoDateGiven(n) ==
    \A k \in 1..Len(files) :
      (FirstExtIn(files[k], MetaExts) /\ StripNumber(files[k].name.base) = n)
        => ~HasProp(files[k].data, "date")

\* C10: a post that no metadata file gives a date keeps the run time as its
\* date, and so is in none of posts, latest, archive, tagged and the feeds;
\* only the map `post` has it.
C10_UndatedPostIsNeverPublished ==
    result.returned =>
      \A n \in DOMAIN result.post :
        NoDateGiven(n) =>
          /\ result.post[n].meta.date = now
          /\ n \notin Range(result.posts)
          /\ n \notin Range(result.latest)
          /\ n \notin ArchiveNames(result.archive)
          /\ n \notin TaggedNames(result.tagged)
          /\ n \notin FeedNames(result.rss, result.atom)

C10_Witness ==
    /\ result.returned
    /\ result.posts # << >>
    /\ \E n \in DOMAIN result.post :
         /\ NoDateGiven(n)
         /\ result.post[n].content # << >>

====
